---- MODULE Spec2Model ----
(***************************************************************************)
(* Model of src/src/logger.py: the logger registry (setup_logger,          *)
(* get_logger), the fan-out of one record to the attached sinks, the       *)
(* rotating file sinks, the log_execution_time wrapper and the log_context *)
(* scope.  Library behaviour the module relies on (logging.getLogger,      *)
(* Logger.isEnabledFor/callHandlers, Handler.handle, RotatingFileHandler,  *)
(* LoggerAdapter.log) is modelled as CPython's logging package implements  *)
(* it.                                                                     *)
(***************************************************************************)
EXTENDS Integers, Sequences, FiniteSets, TLC

\* ------------------------------------------------------------------ bounds
NumThreads == 2
MaxHandlers == 5
MaxFaults == 1
MaxDepth == 2
MaxTime == 2
MaxRecords == 8
MaxWrites == 4

Threads == 1..NumThreads

\* --------------------------------------------------------------- constants
\* logging's severity numbers; NOTSET is a logger's level before setLevel.
NOTSET == 0
DEBUG == 10
INFO == 20
WARNING == 30
ERROR == 40
CRITICAL == 50
\* Stands for a level that logging._checkLevel rejects (an unknown name).
BOGUS == -1

Severities == {DEBUG, INFO, WARNING, ERROR, CRITICAL}

\* config.py: the levels read from the environment, at their defaults.
DEFAULT_LOG_LEVEL == DEBUG
FILE_LOG_LEVEL == DEBUG
CONSOLE_LOG_LEVEL == DEBUG

\* The logger names in use: "default" (made when logger.py is imported),
\* get_logger()'s default name "app", and a child of "app".
Names == {"default", "app", "app.db"}
None == 0
ObjIds == 1..Cardinality(Names)

Kinds == {"console", "file", "json", "error"}

\* setup_logger's signature defaults.
DefaultOptions ==
    [level |-> DEFAULT_LOG_LEVEL, console_level |-> CONSOLE_LOG_LEVEL,
     file_level |-> FILE_LOG_LEVEL, enable_console |-> TRUE,
     enable_file |-> TRUE, enable_error_file |-> TRUE,
     enable_json_file |-> TRUE]

\* The option records callers pass to setup_logger.
\* Default levels, console disabled, the three file sinks enabled.
ConsoleOffOptions == [DefaultOptions EXCEPT !.enable_console = FALSE]

InfoOptions ==
    [DefaultOptions EXCEPT !.level = INFO, !.console_level = ERROR,
                           !.file_level = WARNING,
                           !.enable_json_file = FALSE]

OptionRecords ==
    { DefaultOptions,
      [DefaultOptions EXCEPT !.enable_console = FALSE],
      InfoOptions }

\* The option records the concurrent callers pass.
\* Option records with a level that logging does not know, for the handle,
\* for a sink that is enabled and for a sink that is disabled.
LevelOptions ==
    { DefaultOptions,
      [DefaultOptions EXCEPT !.level = BOGUS],
      [DefaultOptions EXCEPT !.console_level = BOGUS],
      [DefaultOptions EXCEPT !.file_level = BOGUS],
      [DefaultOptions EXCEPT !.console_level = BOGUS,
                             !.enable_console = FALSE],
      [DefaultOptions EXCEPT !.file_level = BOGUS, !.enable_file = FALSE],
      [DefaultOptions EXCEPT !.file_level = BOGUS, !.enable_file = FALSE,
                             !.enable_json_file = FALSE] }

RaceOptions ==
    { DefaultOptions, [DefaultOptions EXCEPT !.enable_console = FALSE] }

\* ------------------------------------------------------------------- state
VARIABLES
    _loggers,   \* logger.py's cache: name -> Logger object (None: absent)
    manager,    \* logging's own loggerDict: name -> Logger object
    heap,       \* Logger objects: level, handlers, propagate
    pc,         \* each thread's position in setup_logger / get_logger
    call,       \* each thread's arguments and locals of the running call
    last,       \* each thread's last finished call: name and result;
                \* cached: it returned the cache's entry (line 98 or 152)
    faulted,    \* per name, how many initializations of it have raised
    out,        \* the emission call in progress: what each sink did with
                \* the record
    stack,      \* the log_execution_time wrappers being run, outermost first
    now,        \* time.time()
    done,       \* the wrapper invocation that has just finished
    dicts,      \* the dict objects callers keep and pass as extra=
    scope,      \* each thread's log_context scope
    record,     \* per thread, the LogRecord of its emission call in progress
    baseFile,   \* the lines in a rotating handler's baseFilename
    backups,    \* its backup files: backups[i] is baseFilename.i
    emitted,    \* how many records the rotating handler has been given
    environ,    \* the process environment config.py reads at import
    lock,       \* per Logger, the thread holding its app.log handler's lock
    stream,     \* per Logger, the file the stream of its app.log handler is on
    orphan,     \* per Logger, that file's lines once it has been removed
    writer      \* per thread, where it is in an emission to app.log

registryVars == <<_loggers, manager, heap, pc, call, last, faulted, out>>
timingVars == <<stack, now, done>>
contextVars == <<dicts, scope, record>>
rotationVars == <<baseFile, backups, emitted>>
configVars == <<environ>>
writerVars == <<lock, stream, orphan, writer>>

vars == <<registryVars, timingVars, contextVars, rotationVars, configVars,
          writerVars>>

\* A Logger as logging.Logger.__init__ leaves it.
NewLogger == [level |-> NOTSET, handlers |-> <<>>, propagate |-> TRUE]

NoCall == [name |-> "", options |-> DefaultOptions, logger |-> None]
NoResult == [name |-> "", result |-> "none", handle |-> None,
             cached |-> FALSE]
NoEmission == [handle |-> None, level |-> NOTSET, made |-> FALSE,
               bad |-> "", sinks |-> <<>>, raised |-> ""]

\* The operations log_execution_time decorates (demo.py), and what running
\* one can end in: a returned value, an exception of class Exception, or a
\* BaseException that is not an Exception.
Operations == {"_slow_operation", "_error_operation"}
Values == {"Operation completed successfully", "none"}
Exceptions == {"ValueError", "OSError"}
BaseExceptions == {"KeyboardInterrupt"}

Outcomes ==
    [kind : {"return"}, value : Values]
    \cup [kind : {"raise"}, value : Exceptions \cup BaseExceptions]

NoInvocation ==
    [func |-> "", ran |-> FALSE, outcome |-> [kind |-> "", value |-> ""],
     result |-> [kind |-> "", value |-> ""], emitted |-> <<>>,
     elapsed |-> 0]

\* Extra-field mappings: for each key a value or Absent.  The values a
\* log_context scope is given and the values callers put in their own extra
\* mappings are kept apart, so that a value tells where it came from.
Keys == {"context_data", "data"}
Absent == "absent"
ScopeValues == {"scope value"}
CallerValues == {"caller value"}
Empty == [k \in Keys |-> Absent]
ScopeMappings ==
    {m \in [Keys -> ScopeValues \cup {Absent}] : m["context_data"] # Absent}
CallerMappings ==
    {[Empty EXCEPT ![k] = v] : k \in Keys, v \in CallerValues}
DictIds == {1}

\* What a call site passes as extra=: nothing, a dict built for the call,
\* or one of the dict objects it keeps.
ExtraArguments ==
    [kind : {"none"}, map : {Empty}, id : {None}]
    \cup [kind : {"literal"}, map : CallerMappings, id : {None}]
    \cup [kind : {"kept"}, map : {Empty}, id : DictIds]

NoScope == [state |-> "none", log |-> None, fields |-> Empty]
NoRecord ==
    [via |-> "", handle |-> None, made |-> FALSE, passed |-> Empty,
     extra |-> Empty]

\* The rotation settings of config.py.
Mi == 1024 * 1024
MAX_LOG_SIZE == 10 * Mi
BACKUP_COUNT == 5

\* The formatted text of a record: so many characters, each taking so many
\* bytes in UTF-8 (1 for ASCII text, 3 for CJK text).
Texts ==
    { [chars |-> 6 * Mi - 1, width |-> 1],
      [chars |-> 3 * Mi - 1, width |-> 1],
      [chars |-> 2 * Mi, width |-> 3] }

\* A thread that is not inside an emission to app.log.
NoWriter == [at |-> "idle", handler |-> None,
             text |-> [chars |-> 0, width |-> 1]]

\* The texts threads write to app.log concurrently.
WriterTexts == {text \in Texts : text.width = 1}

\* A handler object: its kind (class and destination) and its level.
Handler(kind, level) == [kind |-> kind, level |-> level]

\* What setup_logger builds for an option record when nothing fails.
Configured(options) ==
    [level |-> options.level,
     handlers |->
        (IF options.enable_console
         THEN <<Handler("console", options.console_level)>> ELSE <<>>)
        \o (IF options.enable_file
            THEN <<Handler("file", options.file_level)>> ELSE <<>>)
        \o (IF options.enable_json_file
            THEN <<Handler("json", options.file_level)>> ELSE <<>>)
        \o (IF options.enable_error_file
            THEN <<Handler("error", ERROR)>> ELSE <<>>),
     propagate |-> FALSE]

\* The environment keys config.py reads for its environment settings, with
\* values a deployment may give them; unset keys read as the defaults.
DefaultEnviron == [ENVIRONMENT |-> "development", USE_JSON_FORMAT |-> "false"]

Environs ==
    [ENVIRONMENT : {"development", "production"},
     USE_JSON_FORMAT : {"false", "true", "True"}]

\* str.lower on the values above.
lower(value) == IF value = "True" THEN "true" ELSE value

\* config.py lines 45-48.
IS_PRODUCTION == environ.ENVIRONMENT = "production"

USE_JSON_FORMAT == lower(environ.USE_JSON_FORMAT) = "true" \/ IS_PRODUCTION

\* The formatter each handler class sets: ColoredFormatter, the plain
\* logging.Formatter with FILE_FORMAT, or jsonlogger.JsonFormatter.
Format(kind) ==
    CASE kind = "console" -> "colored"
      [] kind = "json" -> "json"
      [] OTHER -> "text"

\* The state once logger.py is imported: line 234 has run
\* get_logger("default"), so "default" is set up with the default options.
Imported ==
    /\ _loggers = [n \in Names |-> IF n = "default" THEN 1 ELSE None]
    /\ manager = [n \in Names |-> IF n = "default" THEN 1 ELSE None]
    /\ heap = [o \in ObjIds |->
                 IF o = 1 THEN Configured(DefaultOptions) ELSE NewLogger]
    /\ pc = [t \in Threads |-> "idle"]
    /\ call = [t \in Threads |-> NoCall]
    /\ last = [t \in Threads |-> NoResult]
    /\ faulted = [n \in Names |-> 0]
    /\ out = NoEmission
    /\ stack = <<>>
    /\ now = 0
    /\ done = NoInvocation
    /\ dicts = [d \in DictIds |-> [Empty EXCEPT !["data"] = "caller value"]]
    /\ scope = [t \in Threads |-> NoScope]
    /\ record = [t \in Threads |-> NoRecord]
    /\ baseFile = <<>>
    /\ backups = <<>>
    /\ emitted = 0
    /\ lock = [lg \in ObjIds |-> None]
    /\ stream = [lg \in ObjIds |-> 0]
    /\ orphan = [lg \in ObjIds |-> <<>>]
    /\ writer = [t \in Threads |-> NoWriter]

\* A process started without the environment keys set.
Init ==
    /\ Imported
    /\ environ = DefaultEnviron

\* A process started in any of the environments.
InitEnviron ==
    /\ Imported
    /\ environ \in Environs

\* ------------------------------------------------------- logging internals
\* logging.getLogger(name): the manager's object for the name, made on first
\* use; one object per name, under logging's own lock.
FreshId == CHOOSE o \in ObjIds : \A n \in Names : manager[n] # o

getLogger(name) == IF manager[name] # None THEN manager[name] ELSE FreshId

\* As checkLevel, but accepting every level.
checkLevelLax(level) == TRUE

\* logging._checkLevel: an unknown level raises ValueError.
checkLevel(level) == level # BOGUS

\* Logger.addHandler.
addHandler(lg, h) ==
    [heap EXCEPT ![lg].handlers = Append(heap[lg].handlers, h)]

\* The name a Logger object was made for.
NameOf(lg) == CHOOSE n \in Names : manager[n] = lg

\* Logger.parent: the nearest ancestor by dotted name that logging has made
\* a Logger for, else the root logger (None here: logger.py never gives the
\* root any handler).
Parent(lg) ==
    IF NameOf(lg) = "app.db" THEN manager["app"] ELSE None

\* Logger.getEffectiveLevel: the first level that is set, up the parents;
\* the root logger's level is WARNING.
RECURSIVE getEffectiveLevel(_)
getEffectiveLevel(lg) ==
    IF lg = None THEN WARNING
    ELSE IF heap[lg].level # NOTSET THEN heap[lg].level
    ELSE getEffectiveLevel(Parent(lg))

isEnabledFor(lg, level) == level >= getEffectiveLevel(lg)

\* Logger.callHandlers: the loggers whose handlers see a record, stopping
\* after the first one with propagate off.
RECURSIVE Chain(_)
Chain(lg) ==
    IF lg = None THEN <<>>
    ELSE <<lg>> \o (IF heap[lg].propagate THEN Chain(Parent(lg)) ELSE <<>>)

\* As SinkResult, but a record exactly at the sink's level is dropped.
SinkResultStrict(h, level, bad) ==
    IF level > h.level
    THEN (IF h.kind = bad THEN "fault" ELSE "written")
    ELSE "dropped"

\* "if record.levelno >= hdlr.level: hdlr.handle(record)"; a handler whose
\* destination faults catches the error itself (Handler.handleError).
SinkResult(h, level, bad) ==
    IF level >= h.level
    THEN (IF h.kind = bad THEN "fault" ELSE "written")
    ELSE "dropped"

\* As handleError, but letting the exception go on to the caller.
handleErrorRaises(exc) == exc

\* Handler.handleError, reached from the "except Exception" of the handlers'
\* emit: the error is reported on stderr and emit returns; "" is no exception.
handleError(exc) == ""

\* The exception, if any, that leaves a handler's emit for a record.
Escapes(h, level, bad) ==
    IF SinkResult(h, level, bad) = "fault" THEN handleError("OSError") ELSE ""

\* The loop of callHandlers over one logger's handlers: an exception leaving
\* a handler would end it, and the handlers after that one get nothing.
Offer(lg, level, bad) ==
    [i \in 1..Len(heap[lg].handlers) |->
        [kind |-> heap[lg].handlers[i].kind,
         level |-> heap[lg].handlers[i].level,
         owner |-> lg,
         result |-> IF \E j \in 1..(i - 1) :
                           Escapes(heap[lg].handlers[j], level, bad) # ""
                    THEN "skipped"
                    ELSE SinkResult(heap[lg].handlers[i], level, bad)]]

\* The exception, if any, that leaves the emission call.
Raised(lg, level, bad) ==
    IF \E i \in 1..Len(heap[lg].handlers) :
           Escapes(heap[lg].handlers[i], level, bad) # ""
    THEN "OSError" ELSE ""

RECURSIVE OfferAll(_, _, _)
OfferAll(chain, level, bad) ==
    IF chain = <<>> THEN <<>>
    ELSE Offer(Head(chain), level, bad) \o OfferAll(Tail(chain), level, bad)

callHandlers(lg, level, bad) == OfferAll(Chain(lg), level, bad)

\* ------------------------------------------------------------ setup_logger
Returned(t) == last[t].result = "returned"

Return(t, name, lg, cached) ==
    /\ last' = [last EXCEPT ![t] =
                   [name |-> name, result |-> "returned", handle |-> lg,
                    cached |-> cached]]
    /\ pc' = [pc EXCEPT ![t] = "idle"]
    /\ call' = [call EXCEPT ![t] = NoCall]

\* An exception leaves setup_logger (OSError from the file system,
\* ValueError from setLevel): nothing is undone.
Raise(t, exc) ==
    /\ last' = [last EXCEPT ![t] =
                   [name |-> call[t].name, result |-> exc,
                    handle |-> None, cached |-> FALSE]]
    /\ faulted' = [faulted EXCEPT ![call[t].name] = @ + 1]
    /\ pc' = [pc EXCEPT ![t] = "idle"]
    /\ call' = [call EXCEPT ![t] = NoCall]

\* As CacheCheck, but with the level applied before the cache is consulted.
CacheCheckAfterSetLevel(t, name, options) ==
    IF _loggers[name] # None
    THEN /\ Return(t, name, _loggers[name], TRUE)
         /\ heap' = [heap EXCEPT ![_loggers[name]].level = options.level]
         /\ UNCHANGED <<_loggers, manager, faulted, out>>
    ELSE /\ pc' = [pc EXCEPT ![t] = "create"]
         /\ call' = [call EXCEPT ![t] =
                        [name |-> name, options |-> options, logger |-> None]]
         /\ UNCHANGED <<_loggers, manager, heap, last, faulted, out>>

\* Line 97-98: "if name in _loggers: return _loggers[name]".
CacheCheck(t, name, options) ==
    IF _loggers[name] # None
    THEN /\ Return(t, name, _loggers[name], TRUE)
         /\ UNCHANGED <<_loggers, manager, heap, faulted, out>>
    ELSE /\ pc' = [pc EXCEPT ![t] = "create"]
         /\ call' = [call EXCEPT ![t] =
                        [name |-> name, options |-> options, logger |-> None]]
         /\ UNCHANGED <<_loggers, manager, heap, last, faulted, out>>

\* A call of setup_logger(name, **options).
SetupLogger(t, name, options) ==
    /\ pc[t] = "idle"
    /\ CacheCheck(t, name, options)

\* get_logger(name), lines 150-152: a miss goes on to setup_logger(name)
\* with the default options, which checks the cache again.
GetLogger(t, name) ==
    /\ pc[t] = "idle"
    /\ IF _loggers[name] = None
       THEN /\ pc' = [pc EXCEPT ![t] = "setup"]
            /\ call' = [call EXCEPT ![t] =
                           [name |-> name, options |-> DefaultOptions,
                            logger |-> None]]
            /\ UNCHANGED <<_loggers, manager, heap, last, faulted, out>>
       ELSE /\ Return(t, name, _loggers[name], TRUE)
            /\ UNCHANGED <<_loggers, manager, heap, faulted, out>>

SetupEntry(t) ==
    /\ pc[t] = "setup"
    /\ CacheCheck(t, call[t].name, call[t].options)

\* Lines 101-102: logging.getLogger(name), then logger.setLevel(level).
CreateLogger(t) ==
    /\ pc[t] = "create"
    /\ LET lg == getLogger(call[t].name) IN
       /\ manager' = [manager EXCEPT ![call[t].name] = lg]
       /\ IF checkLevel(call[t].options.level)
          THEN /\ heap' = [heap EXCEPT ![lg].level = call[t].options.level]
               /\ call' = [call EXCEPT ![t].logger = lg]
               /\ pc' = [pc EXCEPT ![t] = "mkdir"]
               /\ UNCHANGED <<last, faulted>>
          ELSE /\ Raise(t, "ValueError")
               /\ UNCHANGED heap
    /\ UNCHANGED <<_loggers, out>>

\* Whether a file-system call succeeds is the environment's choice; the
\* model lets MaxFaults of them fail in one run.
FaultCount == faulted["default"] + faulted["app"] + faulted["app.db"]

IOOutcomes == IF FaultCount < MaxFaults THEN BOOLEAN ELSE {TRUE}

\* Line 105: config.LOG_DIR.mkdir(exist_ok=True); it may raise OSError.
MakeLogDir(t) ==
    /\ pc[t] = "mkdir"
    /\ \E ok \in IOOutcomes :
          IF ok
          THEN /\ pc' = [pc EXCEPT ![t] = "console"]
               /\ UNCHANGED <<call, last, faulted>>
          ELSE Raise(t, "OSError")
    /\ UNCHANGED <<_loggers, manager, heap, out>>

\* One "if enable_x: h = X(...); h.setLevel(l); logger.addHandler(h)" block.
\* Building a file handler opens its file and may raise OSError; setLevel
\* raises ValueError on an unknown level; either leaves the block before
\* addHandler.
Attach(t, enabled, kind, level, opens, next) ==
    IF ~enabled
    THEN /\ pc' = [pc EXCEPT ![t] = next]
         /\ UNCHANGED <<heap, call, last, faulted>>
    ELSE \E opened \in (IF opens THEN IOOutcomes ELSE {TRUE}) :
            IF opened /\ checkLevel(level)
            THEN /\ Len(heap[call[t].logger].handlers) < MaxHandlers
                 /\ heap' = addHandler(call[t].logger, Handler(kind, level))
                 /\ pc' = [pc EXCEPT ![t] = next]
                 /\ UNCHANGED <<call, last, faulted>>
            ELSE /\ Raise(t, IF opened THEN "ValueError" ELSE "OSError")
                 /\ UNCHANGED heap

\* Lines 108-111.
AttachConsole(t) ==
    /\ pc[t] = "console"
    /\ Attach(t, call[t].options.enable_console, "console",
              call[t].options.console_level, FALSE, "file")
    /\ UNCHANGED <<_loggers, manager, out>>

\* Lines 114-117.
AttachFile(t) ==
    /\ pc[t] = "file"
    /\ Attach(t, call[t].options.enable_file, "file",
              call[t].options.file_level, TRUE, "json")
    /\ UNCHANGED <<_loggers, manager, out>>

\* Lines 120-123.
AttachJson(t) ==
    /\ pc[t] = "json"
    /\ Attach(t, call[t].options.enable_json_file, "json",
              call[t].options.file_level, TRUE, "error")
    /\ UNCHANGED <<_loggers, manager, out>>

\* As AttachError, but with the level the other file handlers get.
AttachErrorAtFileLevel(t) ==
    /\ pc[t] = "error"
    /\ Attach(t, call[t].options.enable_error_file, "error",
              call[t].options.file_level, TRUE, "finish")
    /\ UNCHANGED <<_loggers, manager, out>>

\* Lines 126-129.
AttachError(t) ==
    /\ pc[t] = "error"
    /\ Attach(t, call[t].options.enable_error_file, "error", ERROR, TRUE,
              "finish")
    /\ UNCHANGED <<_loggers, manager, out>>

\* Lines 132-137: propagate off, cache the logger, return it.
Register(t) ==
    /\ pc[t] = "finish"
    /\ heap' = [heap EXCEPT ![call[t].logger].propagate = FALSE]
    /\ _loggers' = [_loggers EXCEPT ![call[t].name] = call[t].logger]
    /\ Return(t, call[t].name, call[t].logger, FALSE)
    /\ UNCHANGED <<manager, faulted, out>>

\* ---------------------------------------------------------------- emission
\* Logger.log(level, ...) on a handle a caller holds: "if
\* self.isEnabledFor(level)" the record is made and passed to callHandlers.
\* bad names the destination, if any, whose I/O fails during this emission.
Emit(t, lg, level, bad) ==
    /\ pc[t] = "idle"
    /\ out' = [handle |-> lg, level |-> level,
               made |-> isEnabledFor(lg, level), bad |-> bad,
               sinks |-> IF isEnabledFor(lg, level)
                         THEN callHandlers(lg, level, bad) ELSE <<>>,
               raised |-> IF isEnabledFor(lg, level)
                          THEN Raised(lg, level, bad) ELSE ""]
    /\ pc' = [pc EXCEPT ![t] = "emit"]
    /\ UNCHANGED <<_loggers, manager, heap, call, last, faulted>>

\* The emission call ends, with out.raised going to its caller.
EmitReturn(t) ==
    /\ pc[t] = "emit"
    /\ pc' = [pc EXCEPT ![t] = "idle"]
    /\ out' = NoEmission
    /\ UNCHANGED <<_loggers, manager, heap, call, last, faulted>>

Registered == {_loggers[n] : n \in Names} \ {None}

\* ------------------------------------------------------ log_execution_time
Top == stack[Len(stack)]

Pop == SubSeq(stack, 1, Len(stack) - 1)

Resolving == stack # <<>> /\ Top.phase = "resolve"

\* As wrapper's body, but with the failure logged and then swallowed.
wrapperSwallows(func, log, outcome, elapsed) ==
    IF outcome.kind = "return"
    THEN [emitted |->
             <<[handle |-> log, level |-> INFO, exc_info |-> FALSE,
                extra |-> [function |-> func, execution_time |-> elapsed,
                           status |-> "success"]]>>,
          result |-> outcome]
    ELSE IF outcome.value \in Exceptions
    THEN [emitted |->
             <<[handle |-> log, level |-> ERROR, exc_info |-> TRUE,
                extra |-> [function |-> func, execution_time |-> elapsed,
                           status |-> "error", error |-> outcome.value]]>>,
          result |-> [kind |-> "return", value |-> "none"]]
    ELSE [emitted |-> <<>>, result |-> outcome]

\* As wrapper's body, but without line 183's "return result".
wrapperDropsResult(func, log, outcome, elapsed) ==
    IF outcome.kind = "return"
    THEN [emitted |->
             <<[handle |-> log, level |-> INFO, exc_info |-> FALSE,
                extra |-> [function |-> func, execution_time |-> elapsed,
                           status |-> "success"]]>>,
          result |-> [kind |-> "return", value |-> "none"]]
    ELSE IF outcome.value \in Exceptions
    THEN [emitted |->
             <<[handle |-> log, level |-> ERROR, exc_info |-> TRUE,
                extra |-> [function |-> func, execution_time |-> elapsed,
                           status |-> "error", error |-> outcome.value]]>>,
          result |-> outcome]
    ELSE [emitted |-> <<>>, result |-> outcome]

\* Lines 172-196, from the moment func has returned or raised: the emission
\* calls the wrapper makes on log, in order, and what the wrapper hands to
\* its caller.  "except Exception" does not catch a BaseException that is
\* not an Exception: it passes through with nothing logged.
wrapper(func, log, outcome, elapsed) ==
    IF outcome.kind = "return"
    THEN [emitted |->
             <<[handle |-> log, level |-> INFO, exc_info |-> FALSE,
                extra |-> [function |-> func, execution_time |-> elapsed,
                           status |-> "success"]]>>,
          result |-> outcome]
    ELSE IF outcome.value \in Exceptions
    THEN [emitted |->
             <<[handle |-> log, level |-> ERROR, exc_info |-> TRUE,
                extra |-> [function |-> func, execution_time |-> elapsed,
                           status |-> "error", error |-> outcome.value]]>>,
          result |-> outcome]
    ELSE [emitted |-> <<>>, result |-> outcome]

\* As Started, but with a record emitted on the way in.
StartedLogging(func, log, start) ==
    [func |-> func, log |-> log, start |-> start, phase |-> "run",
     outcome |-> [kind |-> "", value |-> ""], elapsed |-> 0,
     emitted |->
        <<[handle |-> log, level |-> INFO, exc_info |-> FALSE,
           extra |-> [function |-> func, execution_time |-> 0,
                      status |-> "success"]]>>]

\* The wrapper at line 172, about to call func: log and start_time are
\* set and no emission call has been made.
Started(func, log, start) ==
    [func |-> func, log |-> log, start |-> start, phase |-> "run",
     outcome |-> [kind |-> "", value |-> ""], elapsed |-> 0,
     emitted |-> <<>>]

\* The wrapper inside line 169's get_logger().
Unresolved(func) ==
    [func |-> func, log |-> None, start |-> 0, phase |-> "resolve",
     outcome |-> [kind |-> "", value |-> ""], elapsed |-> 0,
     emitted |-> <<>>]

\* Lines 169-170: a decorated operation is called, from the top level or from
\* inside a running decorated operation.  "log = logger or get_logger()":
\* with no logger given to the decorator, get_logger() runs for "app".
\* The clock counts from the call of the outermost operation.
WrapperCall(t, func, logger) ==
    /\ pc[t] = "idle"
    /\ Len(stack) < MaxDepth
    /\ stack # <<>> => Top.phase = "run"
    /\ IF logger # None
       THEN /\ stack' = Append(stack, Started(func, logger, now))
            /\ UNCHANGED registryVars
       ELSE /\ GetLogger(t, "app")
            /\ stack' = Append(stack,
                  IF _loggers["app"] # None
                  THEN Started(func, _loggers["app"], now)
                  ELSE Unresolved(func))
    /\ now' = IF stack = <<>> THEN 0 ELSE now
    /\ done' = NoInvocation

\* get_logger() has finished: the wrapper goes on to line 170 with the handle
\* it returned, or its exception leaves the wrapper before func is called.
WrapperResolved(t) ==
    /\ Resolving
    /\ pc[t] = "idle"
    /\ IF Returned(t)
       THEN /\ stack' = [stack EXCEPT ![Len(stack)] =
                           Started(Top.func, last[t].handle, now)]
            /\ UNCHANGED done
       ELSE /\ stack' = Pop
            /\ done' = [func |-> Top.func, ran |-> FALSE,
                        outcome |-> [kind |-> "", value |-> ""],
                        result |-> [kind |-> "raise",
                                    value |-> last[t].result],
                        emitted |-> <<>>, elapsed |-> 0]
    /\ UNCHANGED <<registryVars, now>>

\* Time passes while a decorated operation runs.
Tick ==
    /\ stack # <<>>
    /\ Top.phase = "run"
    /\ now < MaxTime
    /\ now' = now + 1
    /\ UNCHANGED <<registryVars, stack, done>>

\* Line 173 ends: func returns or raises, and line 174 or 185 takes the
\* elapsed time.  What an operation called inside func handed back is
\* gone with func's frame.
FuncEnds(t, outcome) ==
    /\ pc[t] = "idle"
    /\ stack # <<>>
    /\ Top.phase = "run"
    /\ stack' = [stack EXCEPT ![Len(stack)] =
                    [@ EXCEPT !.phase = "finished", !.outcome = outcome,
                              !.elapsed = now - Top.start]]
    /\ done' = NoInvocation
    /\ UNCHANGED <<registryVars, now>>

\* What the wrapper does with the outcome of the operation on top.
Wrapped == wrapper(Top.func, Top.log, Top.outcome, Top.elapsed)

\* Lines 175-182 or 186-195: the wrapper's emission call on log.
WrapperLog(t) ==
    /\ pc[t] = "idle"
    /\ stack # <<>>
    /\ Top.phase = "finished"
    /\ Wrapped.emitted # <<>>
    /\ stack' = [stack EXCEPT ![Len(stack)] =
                    [@ EXCEPT !.phase = "logged",
                              !.emitted = Wrapped.emitted]]
    /\ UNCHANGED <<registryVars, now, done>>

\* Line 183 or 196, or an exception that line 184 does not catch: the
\* wrapper returns or raises to its caller.
WrapperFinish(t) ==
    /\ pc[t] = "idle"
    /\ stack # <<>>
    /\ \/ Top.phase = "logged"
       \/ Top.phase = "finished" /\ Wrapped.emitted = <<>>
    /\ done' = [func |-> Top.func, ran |-> TRUE, outcome |-> Top.outcome,
                result |-> Wrapped.result, emitted |-> Top.emitted,
                elapsed |-> Top.elapsed]
    /\ stack' = Pop
    /\ UNCHANGED <<registryVars, now>>

\* -------------------------------------------------------------- log_context
\* As update, but the mapping is replaced by fields: its own keys are lost.
updateReplace(extra, fields) == fields

\* As update, but keeping the keys the mapping already has (setdefault).
updateMissing(extra, fields) ==
    [k \in Keys |-> IF extra[k] # Absent THEN extra[k] ELSE fields[k]]

\* dict.update, line 226: every key of fields is set in extra.
update(extra, fields) ==
    [k \in Keys |-> IF fields[k] # Absent THEN fields[k] ELSE extra[k]]

\* The mapping an extra= argument denotes.
Deref(extra) == IF extra.kind = "kept" THEN dicts[extra.id] ELSE extra.map

\* Line 217 and 229-230: "log = logger or get_logger()", then the adapter
\* is built around log and the keyword arguments and yielded.
ContextEnter(t, logger, fields) ==
    /\ pc[t] = "idle"
    /\ scope[t].state \in {"none", "closed"}
    /\ IF logger # None
       THEN /\ scope' = [scope EXCEPT ![t] =
                           [state |-> "open", log |-> logger,
                            fields |-> fields]]
            /\ UNCHANGED registryVars
       ELSE /\ GetLogger(t, "app")
            /\ scope' = [scope EXCEPT ![t] =
                           [state |-> IF _loggers["app"] # None
                                      THEN "open" ELSE "resolve",
                            log |-> _loggers["app"], fields |-> fields]]
    /\ UNCHANGED <<dicts, record>>

\* get_logger() has finished: the adapter is built around the handle it
\* returned, or its exception leaves log_context before the block is entered.
ContextResolved(t) ==
    /\ scope[t].state = "resolve"
    /\ pc[t] = "idle"
    /\ scope' = [scope EXCEPT ![t] =
                    IF Returned(t)
                    THEN [@ EXCEPT !.state = "open", !.log = last[t].handle]
                    ELSE NoScope]
    /\ UNCHANGED <<registryVars, dicts, record>>

\* An emission through the adapter, LoggerAdapter.log: "if
\* self.isEnabledFor(level)", process (lines 221-227) puts a new dict in
\* kwargs when the call passed no extra and updates kwargs["extra"], the
\* very object the call passed, with the scope's fields; then the logger
\* makes the record with that extra.
ScopedEmit(t, level, extra) ==
    /\ pc[t] = "idle"
    /\ scope[t].state = "open"
    /\ LET log == scope[t].log
           merged == update(Deref(extra), scope[t].fields)
       IN
       IF isEnabledFor(log, level)
       THEN /\ dicts' = IF extra.kind = "kept"
                        THEN [dicts EXCEPT ![extra.id] = merged]
                        ELSE dicts
            /\ record' = [record EXCEPT ![t] =
                             [via |-> "scoped", handle |-> log,
                              made |-> TRUE, passed |-> Deref(extra),
                              extra |-> merged]]
       ELSE /\ record' = [record EXCEPT ![t] =
                             [via |-> "scoped", handle |-> log,
                              made |-> FALSE, passed |-> Empty,
                              extra |-> Empty]]
            /\ UNCHANGED dicts
    /\ pc' = [pc EXCEPT ![t] = "emit"]
    /\ UNCHANGED <<_loggers, manager, heap, call, last, faulted, out, scope>>

\* An emission through a handle itself, with an extra= argument.
PlainEmit(t, lg, level, extra) ==
    /\ pc[t] = "idle"
    /\ record' = [record EXCEPT ![t] =
                     [via |-> "plain", handle |-> lg,
                      made |-> isEnabledFor(lg, level),
                      passed |-> IF isEnabledFor(lg, level)
                                 THEN Deref(extra) ELSE Empty,
                      extra |-> IF isEnabledFor(lg, level)
                                THEN Deref(extra) ELSE Empty]]
    /\ pc' = [pc EXCEPT ![t] = "emit"]
    /\ UNCHANGED <<_loggers, manager, heap, call, last, faulted, out, scope,
                   dicts>>

\* The emission call returns.
RecordReturn(t) ==
    /\ EmitReturn(t)
    /\ record' = [record EXCEPT ![t] = NoRecord]
    /\ UNCHANGED <<dicts, scope>>

\* The with block ends, normally or by an exception raised inside it:
\* the generator has nothing after its yield, so nothing is undone.
ContextExit(t) ==
    /\ pc[t] = "idle"
    /\ scope[t].state = "open"
    /\ scope' = [scope EXCEPT ![t] = [NoScope EXCEPT !.state = "closed"]]
    /\ UNCHANGED <<registryVars, dicts, record>>

\* ----------------------------------------------- rotating file handlers
\* StandardFileHandler and JsonFileHandler are RotatingFileHandlers built with
\* maxBytes=MAX_LOG_SIZE, backupCount=BACKUP_COUNT, encoding="utf-8".

\* The line written for a text is the text and a newline: len() counts its
\* characters, the stream writes its UTF-8 encoding.
len(text) == text.chars + 1
Utf8Len(text) == text.chars * text.width + 1

\* stream.tell() at the end of a file: the bytes of its lines.
RECURSIVE tell(_)
tell(file) ==
    IF file = <<>> THEN 0
    ELSE Utf8Len(file[1]) + tell(Tail(file))

\* RotatingFileHandler.shouldRollover:
\* "self.stream.tell() + len(msg) >= self.maxBytes".
shouldRollover(text) == tell(baseFile) + len(text) >= MAX_LOG_SIZE

\* RotatingFileHandler.doRollover: baseFilename.i becomes baseFilename.(i+1)
\* for i = backupCount-1 .. 1, replacing what was there, and baseFilename
\* becomes baseFilename.1.
doRollover ==
    <<baseFile>> \o SubSeq(backups, 1,
                           IF Len(backups) < BACKUP_COUNT
                           THEN Len(backups) ELSE BACKUP_COUNT - 1)

\* RotatingFileHandler.emit of one record: roll over if shouldRollover,
\* then write the line to the stream of baseFilename.
RotatingEmit(text) ==
    /\ emitted < MaxRecords
    /\ emitted' = emitted + 1
    /\ LET line == [id |-> emitted + 1, chars |-> text.chars,
                    width |-> text.width]
       IN
       IF shouldRollover(text)
       THEN /\ backups' = doRollover
            /\ baseFile' = <<line>>
       ELSE /\ baseFile' = Append(baseFile, line)
            /\ UNCHANGED backups

\* -------------------------------------------- concurrent writers of app.log
\* Every setup_logger call that enables the file sink builds its own
\* StandardFileHandler(config.LOG_FILE) (lines 114-117): the handles
\* "default" and "app" each have a handler object on logs/app.log, each with
\* its own lock (Handler.createLock) and its own open stream.  A handler is
\* named here by the Logger it is attached to.

HasFileHandler(lg) ==
    \E i \in 1..Len(heap[lg].handlers) : heap[lg].handlers[i].kind = "file"

\* A stream stays on the file it was opened on when the file is renamed:
\* 0 is app.log, i is app.log.i, Removed a file that was deleted.
Removed == BACKUP_COUNT + 1

\* The lines of the file a handler's stream is on.
StreamFile(lg) ==
    IF stream[lg] = 0 THEN baseFile
    ELSE IF stream[lg] = Removed THEN orphan[lg]
    ELSE backups[stream[lg]]

\* Handler.handle: "self.acquire()" on the handler's own lock, then emit.
WriterAcquire(t, lg, text) ==
    /\ pc[t] = "idle"
    /\ writer[t].at = "idle"
    /\ HasFileHandler(lg)
    /\ emitted < MaxWrites
    /\ lock[lg] = None
    /\ lock' = [lock EXCEPT ![lg] = t]
    /\ writer' = [writer EXCEPT ![t] =
                     [at |-> "decide", handler |-> lg, text |-> text]]
    /\ UNCHANGED <<registryVars, rotationVars, stream, orphan>>

\* RotatingFileHandler.shouldRollover, on the handler's own stream.
WriterDecide(t) ==
    /\ writer[t].at = "decide"
    /\ writer' = [writer EXCEPT ![t].at =
                     IF tell(StreamFile(writer[t].handler))
                            + len(writer[t].text) >= MAX_LOG_SIZE
                     THEN "rollover" ELSE "write"]
    /\ UNCHANGED <<registryVars, rotationVars, lock, stream, orphan>>

\* RotatingFileHandler.doRollover: the handler closes its stream, renames
\* the files by name and opens a new app.log; the streams of the other
\* handlers follow their files.
WriterRollover(t) ==
    /\ writer[t].at = "rollover"
    /\ backups' = doRollover
    /\ baseFile' = <<>>
    /\ stream' = [lg \in ObjIds |->
                     IF lg = writer[t].handler THEN 0
                     ELSE IF ~HasFileHandler(lg) \/ stream[lg] = Removed
                     THEN stream[lg]
                     ELSE stream[lg] + 1]
    /\ orphan' = [lg \in ObjIds |->
                     IF lg = writer[t].handler THEN <<>>
                     ELSE IF HasFileHandler(lg) /\ stream[lg] = BACKUP_COUNT
                     THEN backups[BACKUP_COUNT]
                     ELSE orphan[lg]]
    /\ writer' = [writer EXCEPT ![t].at = "write"]
    /\ UNCHANGED <<registryVars, emitted, lock>>

\* FileHandler.emit: the line is written to the handler's stream, then
\* Handler.handle releases the handler's lock.
WriterWrite(t) ==
    /\ writer[t].at = "write"
    /\ LET lg == writer[t].handler
           line == [id |-> emitted + 1, chars |-> writer[t].text.chars,
                    width |-> writer[t].text.width]
       IN
       /\ baseFile' = IF stream[lg] = 0
                      THEN Append(baseFile, line) ELSE baseFile
       /\ backups' = IF stream[lg] \in 1..BACKUP_COUNT
                     THEN [backups EXCEPT ![stream[lg]] = Append(@, line)]
                     ELSE backups
       /\ orphan' = IF stream[lg] = Removed
                    THEN [orphan EXCEPT ![lg] = Append(@, line)]
                    ELSE orphan
       /\ lock' = [lock EXCEPT ![lg] = None]
    /\ emitted' = emitted + 1
    /\ writer' = [writer EXCEPT ![t] = NoWriter]
    /\ UNCHANGED <<registryVars, stream>>

\* ---------------------------------------------------------- specifications
\* A thread goes one step further inside setup_logger.
RegistryContinue(t) ==
    \/ SetupEntry(t)
    \/ CreateLogger(t)
    \/ MakeLogDir(t)
    \/ AttachConsole(t)
    \/ AttachFile(t)
    \/ AttachJson(t)
    \/ AttachError(t)
    \/ Register(t)

\* One step of a thread inside or at the start of setup_logger/get_logger.
RegistryStep(t, opts) ==
    \/ \E n \in Names, o \in opts : SetupLogger(t, n, o)
    \/ \E n \in Names : GetLogger(t, n)
    \/ RegistryContinue(t)

\* Threads calling setup_logger and get_logger concurrently.
Next ==
    /\ \E t \in Threads : RegistryStep(t, RaceOptions)
    /\ UNCHANGED <<timingVars, contextVars, rotationVars, configVars,
                   writerVars>>

Spec == Init /\ [][Next]_vars

\* One caller that sets loggers up and emits records through them.
EmitStep ==
    \E lg \in Registered, l \in Severities, b \in Kinds \cup {""} :
        Emit(1, lg, l, b)

NextSeq ==
    /\ RegistryStep(1, OptionRecords) \/ EmitStep \/ EmitReturn(1)
    /\ UNCHANGED <<timingVars, contextVars, rotationVars, configVars,
                   writerVars>>

SpecSeq == Init /\ [][NextSeq]_vars

\* One caller running decorated operations, nested up to MaxDepth, with the
\* get_logger() calls the wrapper makes.  The outermost operation is
\* decorated with any handle or with none; the operations called inside
\* another are decorated as demo.py's are, with none.
NextTiming ==
    /\ \/ /\ RegistryContinue(1)
          /\ UNCHANGED timingVars
       \/ \E f \in Operations,
             lg \in IF stack = <<>> THEN Registered \cup {None} ELSE {None} :
             WrapperCall(1, f, lg)
       \/ WrapperResolved(1)
       \/ Tick
       \/ \E o \in Outcomes : FuncEnds(1, o)
       \/ WrapperLog(1)
       \/ WrapperFinish(1)
    /\ UNCHANGED <<contextVars, rotationVars, configVars, writerVars>>

SpecTiming == Init /\ [][NextTiming]_vars

\* Thread 1 opens log_context scopes and emits through them, with the
\* get_logger() calls log_context makes; every thread emits through the
\* handles themselves.
NextContext ==
    /\ \/ /\ RegistryContinue(1)
          /\ UNCHANGED contextVars
       \/ \E lg \in Registered \cup {None}, f \in ScopeMappings :
             ContextEnter(1, lg, f)
       \/ ContextResolved(1)
       \/ \E l \in Severities, e \in ExtraArguments : ScopedEmit(1, l, e)
       \/ ContextExit(1)
       \/ \E t \in Threads, lg \in Registered, l \in Severities,
             e \in ExtraArguments :
             PlainEmit(t, lg, l, e)
       \/ \E t \in Threads : RecordReturn(t)
    /\ UNCHANGED <<timingVars, rotationVars, configVars, writerVars>>

SpecContext == Init /\ [][NextContext]_vars

\* One rotating file handler is given a sequence of records.
NextRotation ==
    /\ \E text \in Texts : RotatingEmit(text)
    /\ UNCHANGED <<registryVars, timingVars, contextVars, configVars,
                   writerVars>>

SpecRotation == Init /\ [][NextRotation]_vars

\* One caller that creates handles with the console disabled, and no
\* others, and emits through the handles in the registry.
NextConsoleOff ==
    /\ \/ \E n \in Names : SetupLogger(1, n, ConsoleOffOptions)
       \/ RegistryContinue(1)
       \/ EmitStep
       \/ EmitReturn(1)
    /\ UNCHANGED <<timingVars, contextVars, rotationVars, configVars,
                   writerVars>>

SpecConsoleOff == Init /\ [][NextConsoleOff]_vars

\* Threads emitting to app.log through the handles in the registry, while
\* thread 1 may get the handle "app" made.
NextWriters ==
    /\ \/ /\ writer[1].at = "idle"
          /\ GetLogger(1, "app") \/ RegistryContinue(1)
          /\ UNCHANGED <<rotationVars, writerVars>>
       \/ \E t \in Threads, lg \in Registered, text \in WriterTexts :
             WriterAcquire(t, lg, text)
       \/ \E t \in Threads : WriterDecide(t)
       \/ \E t \in Threads : WriterRollover(t)
       \/ \E t \in Threads : WriterWrite(t)
    /\ UNCHANGED <<timingVars, contextVars, configVars>>

SpecWriters == Init /\ [][NextWriters]_vars

\* One caller creating handles with valid and invalid levels; a call that
\* may be rejected for its levels counts against the MaxFaults of a run.
NextLevels ==
    /\ \/ \E n \in Names, o \in LevelOptions :
             /\ o = DefaultOptions \/ FaultCount < MaxFaults
             /\ SetupLogger(1, n, o)
       \/ \E n \in Names : GetLogger(1, n)
       \/ RegistryContinue(1)
    /\ UNCHANGED <<timingVars, contextVars, rotationVars, configVars,
                   writerVars>>

SpecLevels == Init /\ [][NextLevels]_vars

\* One caller creating handles with the default options, in a process
\* started in any environment.
NextEnviron ==
    /\ RegistryStep(1, {DefaultOptions})
    /\ UNCHANGED <<timingVars, contextVars, rotationVars, configVars,
                   writerVars>>

SpecEnviron == InitEnviron /\ [][NextEnviron]_vars

\* ------------------------------------------------------------------ claims
\* No sink kind occurs twice in a handler list.
DuplicateFree(handlers) ==
    \A i, j \in 1..Len(handlers) :
        i # j => handlers[i].kind # handlers[j].kind

\* C1: with one caller making any sequence of setup_logger/get_logger calls,
\* once a name is in the registry its entry is never removed or rebound, the
\* Logger it names keeps its level, sinks and propagation flag through every
\* later call whatever options that call passes, every call that returns
\* hands back the registry's handle for the requested name, and two names
\* never share a handle.
C1_RegistryStep ==
    /\ \A n \in Names :
          _loggers[n] # None =>
             /\ _loggers'[n] = _loggers[n]
             /\ heap'[_loggers[n]] = heap[_loggers[n]]
    /\ \A t \in Threads :
          Returned(t)' =>
             /\ last'[t].handle # None
             /\ last'[t].handle = _loggers'[last'[t].name]
    /\ \A n, m \in Names :
          (n # m /\ _loggers'[n] # None) => _loggers'[n] # _loggers'[m]

C1_SecondRequestSameHandle == [][C1_RegistryStep]_vars

\* A request for a registered name came back from the cache, for a handle
\* whose first call had set it up with options other than the defaults.
C1_Witness ==
    /\ Returned(1) /\ last[1].cached
    /\ last[1].handle = _loggers[last[1].name]
    /\ heap[last[1].handle].level = INFO
    /\ Len(heap[last[1].handle].handlers) = 3

\* C2: with threads requesting a name concurrently, a name none of whose
\* initializations has raised has each sink kind attached at most once, and
\* every thread that got a handle got the registry's handle for its name.
C2_SingleInitialization ==
    /\ \A n \in Names :
          (manager[n] # None /\ faulted[n] = 0) =>
             DuplicateFree(heap[manager[n]].handlers)
    /\ \A t \in Threads :
          Returned(t) => last[t].handle = _loggers[last[t].name]

\* C3: for the last record emitted through a registered handle: nothing is
\* offered to any sink unless the handle's level admits the record; if it
\* does, every sink attached to the handle, and no other, is offered the
\* record, a sink drops it exactly when the record is below that sink's own
\* level, and a sink whose level admits it writes it unless that sink's own
\* I/O fails, whatever the sinks before it did.
C3_PerSinkFilter ==
    out.handle # None =>
        LET hs == heap[out.handle].handlers IN
        /\ out.made <=> out.level >= heap[out.handle].level
        /\ ~out.made => out.sinks = <<>>
        /\ out.made =>
              /\ Len(out.sinks) = Len(hs)
              /\ \A i \in 1..Len(hs) :
                    /\ out.sinks[i].kind = hs[i].kind
                    /\ out.sinks[i].owner = out.handle
                    /\ out.sinks[i].result = "dropped"
                           <=> out.level < hs[i].level
                    /\ out.sinks[i].result = "written"
                           <=> (out.level >= hs[i].level
                                /\ hs[i].kind # out.bad)

\* A record that an earlier sink dropped and a later sink wrote, and one
\* written by a sink whose level it equals.
C3_Witness ==
    /\ out.handle # None /\ out.made
    /\ \E i, j \in 1..Len(out.sinks) :
          /\ i < j
          /\ out.sinks[i].result = "dropped"
          /\ out.sinks[j].result = "written"
          /\ out.sinks[j].level = out.level

\* C9: after setup_logger/get_logger has raised OSError for a name (the log
\* directory or a log file could not be made), the registry does not hold
\* the name and logging keeps no Logger for it with sinks attached.
C9_NoPartialHandle ==
    \A t \in Threads :
        last[t].result = "OSError" =>
            /\ _loggers[last[t].name] = None
            /\ manager[last[t].name] # None =>
                  heap[manager[last[t].name]].handlers = <<>>

\* C4: a finished wrapper invocation whose operation returned value V made
\* exactly one emission call on its handle, at info level with
\* status="success", the operation's name and the time that passed between
\* lines 170 and 174, made none at error level, and returned V.
C4_SuccessRecord ==
    (done.ran /\ done.outcome.kind = "return") =>
        /\ Len(done.emitted) = 1
        /\ done.emitted[1].level = INFO
        /\ done.emitted[1].extra =
              [function |-> done.func,
               execution_time |-> done.elapsed,
               status |-> "success"]
        /\ done.result = done.outcome

\* An operation that took time and returned the demo's value, logged on the
\* handle get_logger() made for "app".
C4_Witness ==
    /\ done.ran
    /\ done.outcome = [kind |-> "return",
                       value |-> "Operation completed successfully"]
    /\ done.elapsed > 0
    /\ Len(done.emitted) = 1
    /\ done.emitted[1].handle = _loggers["app"]
    /\ _loggers["app"] # None

\* C5 as stated: a finished wrapper invocation whose operation raised E made
\* exactly one emission call, at error level with status="error" and E's
\* description, and re-raised E.
C5_EveryFailureLogged ==
    (done.ran /\ done.outcome.kind = "raise") =>
        /\ Len(done.emitted) = 1
        /\ done.emitted[1].level = ERROR
        /\ done.emitted[1].extra =
              [function |-> done.func,
               execution_time |-> done.elapsed,
               status |-> "error", error |-> done.outcome.value]
        /\ done.result = done.outcome

\* C5, amended: the same for every E of class Exception; an E that is a
\* BaseException outside Exception is re-raised with no emission call at
\* all; in both cases the caller gets exactly the E the operation raised and
\* no success record is emitted.
C5_ExceptionLogged ==
    (done.ran /\ done.outcome.kind = "raise") =>
        /\ done.result = done.outcome
        /\ IF done.outcome.value \in Exceptions
           THEN /\ Len(done.emitted) = 1
                /\ done.emitted[1].level = ERROR
                /\ done.emitted[1].exc_info
                /\ done.emitted[1].extra =
                      [function |-> done.func,
                       execution_time |-> done.elapsed,
                       status |-> "error", error |-> done.outcome.value]
           ELSE done.emitted = <<>>

\* The demo's failing operation: ValueError raised, logged and re-raised.
C5_Witness ==
    /\ done.ran
    /\ done.func = "_error_operation"
    /\ done.outcome = [kind |-> "raise", value |-> "ValueError"]
    /\ done.result = done.outcome
    /\ Len(done.emitted) = 1

\* ----------------------------------------------------------------- scopes
\* C6: every record made by an emission through the handle a log_context
\* scope yields carries each field the scope was opened with, with the
\* scope's value, whatever the severity and whatever extra= the call passed.
C6_ScopedRecordCarriesFields ==
    \A t \in Threads :
        (record[t].via = "scoped" /\ record[t].made) =>
            /\ scope[t].state = "open"
            /\ record[t].handle = scope[t].log
            /\ \A k \in Keys :
                  scope[t].fields[k] # Absent =>
                      record[t].extra[k] = scope[t].fields[k]

\* C6 happens: a record is made through a scope by a call that passed an
\* extra mapping of its own, and carries both the scope's and the call's
\* fields.
C6_Witness ==
    \E t \in Threads :
        /\ record[t].via = "scoped"
        /\ record[t].made
        /\ record[t].extra["context_data"] = "scope value"
        /\ record[t].extra["data"] = "caller value"

\* C7: once a thread's scope has exited, no record that thread emits
\* through a handle itself carries a value of the scope's fields.
C7_NoFieldsAfterExit ==
    \A t \in Threads :
        (record[t].via = "plain" /\ record[t].made
         /\ scope[t].state = "closed") =>
            \A k \in Keys : record[t].extra[k] \notin ScopeValues

\* C8: from the construction of the scoped handle on, a step of a scope or
\* of an emission leaves every handle's level, sinks and cached identity as
\* they were, and while a scope is open no record another thread emits
\* through the same named handle carries a value of the scope's fields.
C8_ScopeStep ==
    /\ (scope' # scope /\ scope'[1].state # "resolve"
        /\ scope[1].state # "resolve") \/ record' # record =>
           /\ heap' = heap
           /\ _loggers' = _loggers
           /\ manager' = manager
    /\ \A t, u \in Threads :
          (/\ t # u
           /\ scope'[t].state = "open"
           /\ record'[u].via = "plain"
           /\ record'[u].made
           /\ record'[u].handle = scope'[t].log) =>
              \A k \in Keys : record'[u].extra[k] \notin ScopeValues

C8_ScopeIsolated == [][C8_ScopeStep]_vars

\* --------------------------------------------------------------- rotation
\* The line a step of the handler has written last.
C10_Line == baseFile'[Len(baseFile')]

\* There are never more backup files than the backup count.
C10_BackupsBounded == Len(backups') <= BACKUP_COUNT

\* The record given to the handler is written, as the last line of the
\* current file.
C10_RecordWritten ==
    /\ baseFile' # <<>>
    /\ C10_Line.id = emitted'

\* A record that would push the current file past the maximum size
\* produces a new backup, the file that was current.
C10_RotatesWhenPastMaximum ==
    tell(baseFile) + Utf8Len(C10_Line) > MAX_LOG_SIZE =>
        /\ backups' # <<>>
        /\ backups'[1] = baseFile

\* A step that produces a backup keeps the newer backups in order, discards
\* only the oldest one, and only when the count would be exceeded, and writes
\* the record that triggered it to the fresh current file.
C10_OldestDiscarded ==
    backups' # backups =>
        /\ backups'[1] = baseFile
        /\ \A i \in 1..Len(backups) :
              i < BACKUP_COUNT => backups'[i + 1] = backups[i]
        /\ Len(backups') =
              IF Len(backups) < BACKUP_COUNT
              THEN Len(backups) + 1 ELSE BACKUP_COUNT
        /\ Len(baseFile') = 1

C10_EmitStep ==
    emitted' # emitted =>
        /\ C10_BackupsBounded
        /\ C10_RecordWritten
        /\ C10_RotatesWhenPastMaximum
        /\ C10_OldestDiscarded

\* C10: for every sequence of records given to a rotating file handler,
\* there are never more than BACKUP_COUNT backups, a record that would push
\* the current file past MAX_LOG_SIZE produces a new backup, the oldest
\* backup is the one discarded, and the record that triggers a rotation is
\* written to the fresh current file.
C10_Rotation == [][C10_EmitStep]_vars

\* ------------------------------------------------------------ sink faults
\* C11: when a sink's I/O fails during an emission, no exception leaves the
\* emission call, and every other sink of the handle whose level admits the
\* record writes it, whether it comes before or after the failing one.
C11_FaultIsolated ==
    (out.handle # None /\ out.made) =>
        /\ out.raised = ""
        /\ \A i \in 1..Len(out.sinks) :
              (out.sinks[i].kind # out.bad
               /\ out.level >= out.sinks[i].level) =>
                  out.sinks[i].result = "written"

\* C11 happens: a sink's I/O failed, and sinks before and after it wrote
\* the record.
C11_Witness ==
    /\ out.handle # None /\ out.made
    /\ \E i, j, k \in 1..Len(out.sinks) :
          /\ i < j /\ j < k
          /\ out.sinks[i].result = "written"
          /\ out.sinks[j].result = "fault"
          /\ out.sinks[k].result = "written"

\* ---------------------------------------------------------- configuration
\* C12: when the environment forces JSON (ENVIRONMENT is "production" or
\* USE_JSON_FORMAT is true), the file output of a handle that setup_logger
\* or get_logger returns for the default options is JSON: apart from the
\* error file, no sink of it that writes a file has another format.
C12_ForcedJsonFileOutput ==
    \A t \in Threads :
        (Returned(t) /\ USE_JSON_FORMAT) =>
            \A i \in 1..Len(heap[last[t].handle].handlers) :
                LET kind == heap[last[t].handle].handlers[i].kind IN
                kind \in {"file", "json"} => Format(kind) = "json"

\* ----------------------------------------------------------- invalid levels
\* A thread's creating call (one that did not find the name in the registry)
\* ends in this step.
C13_CallEnds(t) ==
    /\ pc[t] \notin {"idle", "emit"}
    /\ pc'[t] = "idle"

\* No registered handle holds an unknown level, for itself or for a sink,
\* that a later emission would trip over.
C13_NothingDeferred ==
    \A n \in Names :
        _loggers[n] # None =>
            /\ heap[_loggers[n]].level # BOGUS
            /\ \A i \in 1..Len(heap[_loggers[n]].handlers) :
                  heap[_loggers[n]].handlers[i].level # BOGUS

C13_AnyLevelStep ==
    /\ \A t \in Threads :
          (/\ C13_CallEnds(t)
           /\ BOGUS \in {call[t].options.level, call[t].options.console_level,
                          call[t].options.file_level}) =>
              /\ last'[t].result # "returned"
              /\ _loggers'[call[t].name] = None
    /\ C13_NothingDeferred'

\* C13: a creating call whose level, console_level or file_level is invalid
\* ends in a fault within setup_logger, the name is not added to the
\* registry, and no invalid level is left for an emission to meet.
C13_InvalidLevelRejected == [][C13_AnyLevelStep]_vars

C13_UsedLevelStep ==
    /\ \A t \in Threads :
          LET o == call[t].options IN
          (/\ C13_CallEnds(t)
           /\ \/ o.level = BOGUS
              \/ o.enable_console /\ o.console_level = BOGUS
              \/ (o.enable_file \/ o.enable_json_file)
                    /\ o.file_level = BOGUS) =>
              /\ last'[t].result # "returned"
              /\ _loggers'[call[t].name] = None
    /\ C13_NothingDeferred'

\* C13 as amended: the same for an invalid level, and for an invalid
\* console_level or file_level of a sink that the options enable.
C13_UsedInvalidLevelRejected == [][C13_UsedLevelStep]_vars

\* C13 happens: a call was rejected for its file_level after the console
\* sink had been attached, and the name is not in the registry.
C13_Witness ==
    /\ last[1].result = "ValueError"
    /\ _loggers[last[1].name] = None
    /\ manager[last[1].name] # None
    /\ Len(heap[manager[last[1].name]].handlers) = 1

\* -------------------------------------------------------- repeated set-up
\* C14: with one caller making any sequence of setup_logger/get_logger
\* calls, calls that raised part-way and were repeated included, a
\* registered handle has each sink kind attached at most once, and no record
\* emitted through it is written twice to the same destination.
C14_SinksAttachedOnce ==
    /\ \A n \in Names :
          _loggers[n] # None => DuplicateFree(heap[_loggers[n]].handlers)
    /\ (out.handle # None /\ out.made) =>
          \A i, j \in 1..Len(out.sinks) :
              (i # j /\ out.sinks[i].result = "written"
               /\ out.sinks[j].result = "written") =>
                  out.sinks[i].kind # out.sinks[j].kind

\* ------------------------------------------------------ concurrent writers
\* C15: at most one thread at a time is between the rotation decision and
\* the end of the write of a record to app.log.
C15_OneWriterAtATime ==
    \A t, u \in Threads :
        (t # u /\ writer[t].at # "idle") => writer[u].at = "idle"

\* ------------------------------------------------------------- error file
\* C16: whatever level, console_level and file_level a handle was created
\* with, every error-file sink attached to a Logger has the level ERROR, and
\* no record below ERROR is written, or even tried, on an error-file sink.
C16_ErrorSinkAtError ==
    /\ \A lg \in ObjIds :
          \A i \in 1..Len(heap[lg].handlers) :
              heap[lg].handlers[i].kind = "error" =>
                  heap[lg].handlers[i].level = ERROR
    /\ \A i \in 1..Len(out.sinks) :
          (out.sinks[i].kind = "error" /\ out.level < ERROR) =>
              out.sinks[i].result = "dropped"

\* C16 happens: a handle created with file_level WARNING wrote a warning to
\* its plain file sink and dropped it at its error-file sink.
C16_Witness ==
    /\ out.handle # None /\ out.made /\ out.level = WARNING
    /\ \E i, j \in 1..Len(out.sinks) :
          /\ out.sinks[i].kind = "file"
          /\ out.sinks[i].level = WARNING
          /\ out.sinks[i].result = "written"
          /\ out.sinks[j].kind = "error"
          /\ out.sinks[j].result = "dropped"

\* ------------------------------------------------- one entry per log file
\* How many sinks of a kind wrote the record of the emission in progress.
C17_Written(kind) ==
    Cardinality({i \in 1..Len(out.sinks) :
                    out.sinks[i].kind = kind
                    /\ out.sinks[i].result = "written"})

\* C17: an error-level emission, with no sink failing, through a handle
\* that was created with default levels, the console disabled and the three
\* file sinks enabled (every handle but "default" here) adds exactly one
\* entry to each of app.log, error.log and app.json.log, prints nothing on
\* the console, and reaches no handler of another Logger.
C17_OneEntryPerFile ==
    (/\ out.handle # None
     /\ out.handle # _loggers["default"]
     /\ out.level = ERROR
     /\ out.bad = "") =>
        /\ out.made
        /\ C17_Written("file") = 1
        /\ C17_Written("error") = 1
        /\ C17_Written("json") = 1
        /\ C17_Written("console") = 0
        /\ \A i \in 1..Len(out.sinks) : out.sinks[i].owner = out.handle

\* -------------------------------------------------------- colliding keys
\* C18: the record made by an emission through a scoped handle has, for
\* every key of the scope's fields, the scope's value, also where the
\* mapping the call passed has the key, and for every other key what the
\* call passed.
C18_ScopeFieldsWin ==
    \A t \in Threads :
        (record[t].via = "scoped" /\ record[t].made) =>
            \A k \in Keys :
                record[t].extra[k] =
                    IF scope[t].fields[k] # Absent
                    THEN scope[t].fields[k]
                    ELSE record[t].passed[k]

\* C18 happens: the call passed a mapping with a key of the scope's fields
\* and the record has the scope's value for it, beside a key that only
\* the scope has.
C18_Witness ==
    \E t \in Threads :
        /\ record[t].via = "scoped"
        /\ record[t].made
        /\ \E k \in Keys :
              /\ record[t].passed[k] \in CallerValues
              /\ scope[t].fields[k] \in ScopeValues
              /\ record[t].extra[k] = scope[t].fields[k]
              /\ \E j \in Keys \ {k} :
                     /\ record[t].passed[j] = Absent
                     /\ record[t].extra[j] \in ScopeValues

\* ------------------------------------------------ when the record is made
\* C19: a step leaves the records of every invocation in progress as they
\* were, but for the one step that emits the single record of the invocation
\* on top, taken after its operation has finished and with the wrapper
\* still to return or raise; an invocation starts with no record, what a
\* finished invocation has emitted is what it had emitted when it left, and
\* every invocation below the top is still running its operation without a
\* record, so that an inner record is emitted before the outer one.
C19_Step ==
    /\ \A i \in 1..Len(stack) :
          i <= Len(stack') /\ stack'[i].emitted # stack[i].emitted =>
              /\ i = Len(stack)
              /\ Len(stack') = Len(stack)
              /\ stack[i].phase = "finished"
              /\ stack[i].emitted = <<>>
              /\ Len(stack'[i].emitted) = 1
    /\ Len(stack') > Len(stack) => stack'[Len(stack')].emitted = <<>>
    /\ Len(stack') < Len(stack) /\ done'.ran =>
          /\ Top.phase \in {"finished", "logged"}
          /\ done'.emitted = Top.emitted
    /\ \A i \in 1..Len(stack') :
          /\ stack'[i].phase \in {"resolve", "run"} =>
                stack'[i].emitted = <<>>
          /\ i < Len(stack') =>
                stack'[i].phase = "run" /\ stack'[i].emitted = <<>>

C19_RecordAfterOperation == [][C19_Step]_vars

\* C19 happens: the inner of two nested operations has finished and
\* emitted its record, inside an outer operation that is still running and
\* has emitted none.
C19_Witness ==
    /\ Len(stack) = 2
    /\ Top.phase = "logged"
    /\ Len(Top.emitted) = 1
    /\ stack[1].phase = "run"
    /\ stack[1].emitted = <<>>

====
